---- MODULE Spec2Model ----
(***************************************************************************)
(* audioarxiv: recovery of the section structure of a paper                *)
(* (resources/paper.py), math normalisation (preprocess/math_equation.py)  *)
(* and narration (audio/base.py, tools/main.py).                           *)
(*                                                                         *)
(* A Python str is a sequence of one-character strings.  None is the       *)
(* one-element sequence None, which is no str.                             *)
(***************************************************************************)
EXTENDS Integers, Sequences, FiniteSets, TLC

VARIABLES
    doc,          \* the PDF behind self.paper: a sequence of pages, each a sequence of block texts
    _sections,    \* Paper._sections
    downloads,    \* number of calls of Paper.download_pdf made so far
    accesses,     \* number of reads of the property Paper.sections so far
    lastAccess,   \* how the latest read of Paper.sections ended
    sections,     \* main's local `sections`: the list the latest read returned
    pc,           \* position of the program: "paper", "narrate", "done", "raised"
    secIdx,       \* main's position in `for section in sections`
    unitIdx,      \* 0: the section's header is next; k > 0: content[k] is next
    log,          \* what the playback engine and time.sleep were asked to do, in order
    mathIn,       \* argument of a call of process_math_equations
    mathOut,      \* its return value
    mathPc,       \* "ready" before the call, "returned" / "raised" after it
    _rate,        \* Audio._rate
    engineRate,   \* the engine's property 'rate'
    _volume,      \* Audio._volume, in tenths
    engineVolume, \* the engine's property 'volume', in tenths
    _voice,       \* Audio._voice: <<id>>, or <<>> while the attribute is not set
    engineVoice,  \* the engine's property 'voice'
    _pause_seconds, \* Audio._pause_seconds, in tenths: <<v>>, or <<>> while the attribute is not set
    lastPause,    \* <<v>> for the latest non-negative v assigned to Audio.pause_seconds, <<>> if none
    audioOp,      \* the latest operation on the Audio object and how it ended
    _page_size,   \* Paper._page_size
    _delay_seconds, \* Paper._delay_seconds
    _num_retries, \* Paper._num_retries
    _client,      \* Paper._client: <<c>>, or <<>> for None
    client,       \* the client the latest read of Paper.client returned, <<>> before any read
    clientOp      \* the latest operation on the Paper settings and how it ended

vars == <<doc, _sections, downloads, accesses, lastAccess, sections, pc,
          secIdx, unitIdx, log, mathIn, mathOut, mathPc,
          _rate, engineRate, _volume, engineVolume, _voice, engineVoice,
          _pause_seconds, lastPause, audioOp,
          _page_size, _delay_seconds, _num_retries, _client, client, clientOp>>

paperVars == <<doc, _sections, downloads, accesses, lastAccess, sections, pc,
               secIdx, unitIdx, log>>

mathVars == <<mathIn, mathOut, mathPc>>

audioVars == <<_rate, engineRate, _volume, engineVolume, _voice, engineVoice,
               _pause_seconds, lastPause, audioOp>>

clientVars == <<_page_size, _delay_seconds, _num_retries, _client, client, clientOp>>

-----------------------------------------------------------------------------
(* Bounds of the model.                                                    *)

MaxBlocks == 3

MaxPages == 2

MaxAccesses == 2

MaxMathLen == 6

-----------------------------------------------------------------------------
(* Characters and Python's str predicates.                                 *)

None == <<"<None>">>

IsStr(x) == x # None

UpperChars == {"A", "B", "E", "M"}

LowerChars == {"a", "b", "q", "u", "t", "i", "o", "n", "h"}

DigitChars == {"1", "2"}

SpaceChars == {" ", "\n"}

CasedChars == UpperChars \cup LowerChars

WordChars == CasedChars \cup DigitChars

RECURSIVE LStrip(_)
LStrip(t) ==
    IF Len(t) > 0 /\ t[1] \in SpaceChars THEN LStrip(Tail(t)) ELSE t

RECURSIVE RStrip(_)
RStrip(t) ==
    IF Len(t) > 0 /\ t[Len(t)] \in SpaceChars
    THEN RStrip(SubSeq(t, 1, Len(t) - 1))
    ELSE t

\* str.strip()
Strip(t) == RStrip(LStrip(t))

\* str.isupper(): at least one cased character, and no lower-case one
IsUpper(t) ==
    /\ \E i \in 1..Len(t) : t[i] \in CasedChars
    /\ \A i \in 1..Len(t) : t[i] \notin LowerChars

\* str.endswith(":")
EndsWithColon(t) == Len(t) > 0 /\ t[Len(t)] = ":"

RECURSIVE SkipWhile(_, _, _)
\* the first position >= i of t whose character is not in S (Len(t) + 1 if none)
SkipWhile(t, i, S) ==
    IF i <= Len(t) /\ t[i] \in S THEN SkipWhile(t, i + 1, S) ELSE i

RECURSIVE SkipGroups(_, _)
\* (\.\d+)* from position i: the position after the last group
SkipGroups(t, i) ==
    IF i + 1 <= Len(t) /\ t[i] = "." /\ t[i + 1] \in DigitChars
    THEN SkipGroups(t, SkipWhile(t, i + 1, DigitChars))
    ELSE i

\* re.match(r"^\d+(\.\d+)*\s+\w+", text)
NumberedMatch(t) ==
    LET i1 == SkipWhile(t, 1, DigitChars)
        i2 == SkipGroups(t, i1)
        i3 == SkipWhile(t, i2, SpaceChars)
    IN  /\ i1 > 1
        /\ i3 > i2
        /\ i3 <= Len(t)
        /\ t[i3] \in WordChars

\* the header test of Paper.sections
IsHeader(text) == IsUpper(text) \/ NumberedMatch(text) \/ EndsWithColon(text)

-----------------------------------------------------------------------------
(* Paper.sections: the classification loop.                                *)

\* Python truthiness of a header (None or str) and of a content list
Truthy(h) == IsStr(h) /\ Len(h) > 0

NewSection(h) == [header |-> h, content |-> <<>>]

\* a flush test that looks at the header only
FlushCond_HeaderOnly(cur) == Truthy(cur.header)

\* a flush that is not guarded at all
FlushCond_Always(cur) == TRUE

\* `if current_section["header"] or current_section["content"]:`
FlushCond(cur) == Truthy(cur.header) \/ Len(cur.content) > 0

\* the text put in front of the content instead of behind it
AppendContent_Prepend(cur, text) == [cur EXCEPT !.content = <<text>> \o @]

\* `current_section["content"].append(text)`: the stripped text of the block
\* is appended as it is
AppendContent(cur, text) == [cur EXCEPT !.content = Append(@, text)]

\* an iteration that skips a block whose stripped text is empty
ClassifyBlock_SkipBlank(st, block) ==
    LET text == Strip(block)
    IN  IF Len(text) = 0 THEN st
        ELSE IF IsHeader(text)
        THEN [out |-> IF FlushCond(st.cur) THEN Append(st.out, st.cur) ELSE st.out,
              cur |-> NewSection(text)]
        ELSE [out |-> st.out,
              cur |-> AppendContent(st.cur, text)]

\* one iteration of `for block in blocks`; st = [out: sections appended so far, cur: current_section]
ClassifyBlock(st, block) ==
    LET text == Strip(block)
    IN  IF IsHeader(text)
        THEN [out |-> IF FlushCond(st.cur) THEN Append(st.out, st.cur) ELSE st.out,
              cur |-> NewSection(text)]
        ELSE [out |-> st.out,
              cur |-> AppendContent(st.cur, text)]

RECURSIVE ClassifyBlocks(_, _)
ClassifyBlocks(st, blocks) ==
    IF Len(blocks) = 0 THEN st
    ELSE ClassifyBlocks(ClassifyBlock(st, Head(blocks)), Tail(blocks))

RECURSIVE ClassifyPages(_, _)
\* `for page in doc` over the pages given
ClassifyPages(st, pages) ==
    IF Len(pages) = 0 THEN st
    ELSE ClassifyPages(ClassifyBlocks(st, Head(pages)), Tail(pages))

\* the loop ends without the last section being appended
FinalFlush_Never(st) == st.out

\* "Append the last section"
FinalFlush(st) == IF FlushCond(st.cur) THEN Append(st.out, st.cur) ELSE st.out

\* `current_section = {"header": None, "content": []}`, appending to self._sections
InitialScan(out) == [out |-> out, cur |-> NewSection(None)]

\* self._sections after the whole computation ran over the pages given
ComputeSections(cache, pages) == FinalFlush(ClassifyPages(InitialScan(cache), pages))

\* self._sections when page.get_text raises on page k: what was flushed before
PartialSections(cache, pages, k) ==
    ClassifyPages(InitialScan(cache), SubSeq(pages, 1, k - 1)).out

-----------------------------------------------------------------------------
(* The documents of the model.                                             *)

SeqsUpTo(S, n) == UNION {[1..k -> S] : k \in 0..n}

\* block texts as page.get_text("blocks") gives them (block[4])
BlockTexts ==
    { <<"A", "B">>,                         \* "AB": upper-case heading
      <<"1", ".", "2", " ", "a">>,          \* "1.2 a": numbered heading
      <<"a", ":">>,                         \* "a:": ends with a colon
      <<" ", "a", ".", " ", "b", "\n">>,    \* " a. b\n": two sentences of prose
      <<"$", "1", "+", "1", "$">>,          \* "$1+1$": inline math
      <<" ", "\n">> }                       \* white space only

\* the pages that cut a flat block sequence at the end positions given
PagesOf(blocks, ends) ==
    [k \in 1..Len(ends) |->
        SubSeq(blocks, (IF k = 1 THEN 0 ELSE ends[k - 1]) + 1, ends[k])]

\* the documents: 1 to MaxPages pages (a page may have no block) holding at
\* most MaxBlocks blocks
Docs ==
    { PagesOf(b, e) :
        <<b, e>> \in
            { <<b, e>> \in SeqsUpTo(BlockTexts, MaxBlocks) \X SeqsUpTo(0..MaxBlocks, MaxPages) :
                /\ Len(e) >= 1
                /\ \A k \in 1..Len(e) : e[k] <= Len(b)
                /\ \A k \in 1..(Len(e) - 1) : e[k] <= e[k + 1]
                /\ e[Len(e)] = Len(b) } }

RECURSIVE Flatten(_)
\* the blocks of the pages given, in reading order
Flatten(pages) ==
    IF Len(pages) = 0 THEN <<>> ELSE Head(pages) \o Flatten(Tail(pages))

-----------------------------------------------------------------------------
(* Reads of the property Paper.sections.                                   *)

NoAccess == [outcome |-> "none", computed |-> FALSE, at |-> "none"]

Returned(computed) == [outcome |-> "returned", computed |-> computed, at |-> "none"]

Raised(at) == [outcome |-> "raised", computed |-> TRUE, at |-> at]

\* `if len(self._sections) == 0:`
MustCompute(cache) == Len(cache) = 0

CanAccess == pc = "paper" /\ accesses < MaxAccesses

\* the cache is not empty: `return self._sections`
SectionsCached ==
    /\ CanAccess
    /\ ~MustCompute(_sections)
    /\ accesses' = accesses + 1
    /\ lastAccess' = Returned(FALSE)
    /\ sections' = _sections
    /\ UNCHANGED <<doc, _sections, downloads, pc, secIdx, unitIdx, log, mathVars, audioVars, clientVars>>

\* the cache is empty and the whole computation succeeds
SectionsComputed ==
    /\ CanAccess
    /\ MustCompute(_sections)
    /\ accesses' = accesses + 1
    /\ downloads' = downloads + 1
    /\ _sections' = ComputeSections(_sections, doc)
    /\ lastAccess' = Returned(TRUE)
    /\ sections' = _sections'
    /\ UNCHANGED <<doc, pc, secIdx, unitIdx, log, mathVars, audioVars, clientVars>>

\* self.download_pdf(filename=filename) raises
SectionsDownloadFails ==
    /\ CanAccess
    /\ MustCompute(_sections)
    /\ accesses' = accesses + 1
    /\ downloads' = downloads + 1
    /\ lastAccess' = Raised("download_pdf")
    /\ UNCHANGED <<doc, _sections, sections, pc, secIdx, unitIdx, log, mathVars, audioVars, clientVars>>

\* fitz.open(filename) raises
SectionsOpenFails ==
    /\ CanAccess
    /\ MustCompute(_sections)
    /\ accesses' = accesses + 1
    /\ downloads' = downloads + 1
    /\ lastAccess' = Raised("fitz.open")
    /\ UNCHANGED <<doc, _sections, sections, pc, secIdx, unitIdx, log, mathVars, audioVars, clientVars>>

\* page.get_text("blocks") raises on page k
SectionsGetTextFails ==
    /\ CanAccess
    /\ MustCompute(_sections)
    /\ \E k \in 1..Len(doc) :
        _sections' = PartialSections(_sections, doc, k)
    /\ accesses' = accesses + 1
    /\ downloads' = downloads + 1
    /\ lastAccess' = Raised("get_text")
    /\ UNCHANGED <<doc, sections, pc, secIdx, unitIdx, log, mathVars, audioVars, clientVars>>

-----------------------------------------------------------------------------
(* Audio.read_article and the narration loop of main.                      *)

RECURSIVE CollapseSpaces(_)
\* every run of white space of t becomes one " "
CollapseSpaces(t) ==
    IF Len(t) = 0 THEN <<>>
    ELSE IF t[1] \in SpaceChars
         THEN <<" ">> \o CollapseSpaces(LStrip(t))
         ELSE <<t[1]>> \o CollapseSpaces(Tail(t))

\* Audio.clean_text: " ".join(text.split()).replace('\n', ' ').strip()
clean_text(text) == CollapseSpaces(Strip(text))

RECURSIVE get_sentences(_)
\* preprocess.get_sentences: one string per sentence, in order; a sentence ends
\* at a "." that a space follows
get_sentences(t) ==
    IF Len(t) = 0 THEN <<>>
    ELSE LET ends == {i \in 1..(Len(t) - 1) : t[i] = "." /\ t[i + 1] = " "}
         IN  IF ends = {} THEN <<t>>
             ELSE LET i == CHOOSE j \in ends : \A k \in ends : j <= k
                  IN  <<SubSeq(t, 1, i)>> \o get_sentences(SubSeq(t, i + 2, Len(t)))

\* self.engine.say(sentence); self.engine.runAndWait()
Say(sentence) == [ev |-> "say", arg |-> sentence]

\* time.sleep(self.pause_seconds)
SentencePause == [ev |-> "sleep", arg |-> <<"pause_seconds">>]

\* time.sleep(1) of main
UnitPause == [ev |-> "sleep", arg |-> <<"1">>]

RECURSIVE SayAll(_)
\* `for sentence in sentences:` of read_article
SayAll(sentences) ==
    IF Len(sentences) = 0 THEN <<>>
    ELSE <<Say(Head(sentences)), SentencePause>> \o SayAll(Tail(sentences))

\* read_article without its isinstance test: clean_text(None) raises
read_article_NoTypeCheck(article) ==
    IF ~IsStr(article) THEN [exc |-> "AttributeError", events |-> <<>>]
    ELSE [exc |-> "", events |-> SayAll(get_sentences(clean_text(article)))]

\* Audio.read_article(article): [exc, events]; exc = "" when it returns.
\* A value that is no str is logged and skipped.
read_article(article) ==
    IF ~IsStr(article) THEN [exc |-> "", events |-> <<>>]
    ELSE [exc |-> "", events |-> SayAll(get_sentences(clean_text(article)))]

\* main without its time.sleep(1)
NarrateUnit_NoPause(unit) == read_article(unit)

\* main: `audio.read_article(unit); time.sleep(1)`: [exc, events]; the sleep
\* is reached when read_article returns
NarrateUnit(unit) ==
    LET r == read_article(unit)
    IN  IF r.exc # "" THEN r ELSE [r EXCEPT !.events = @ \o <<UnitPause>>]

\* main: `sections = paper.sections`, the first read of the property on the
\* Paper main constructed, has returned; `for section in sections:` starts.
\* (An exception of that read leaves main; later reads are those of a caller
\* that keeps the Paper.)
BeginNarration ==
    /\ pc = "paper"
    /\ accesses = 1
    /\ lastAccess.outcome = "returned"
    /\ pc' = "narrate"
    /\ secIdx' = 1
    /\ unitIdx' = 0
    /\ UNCHANGED <<doc, _sections, downloads, accesses, lastAccess, sections, log, mathVars, audioVars, clientVars>>

\* main: `audio.read_article(section['header']); time.sleep(1)`
NarrateHeader ==
    /\ pc = "narrate"
    /\ secIdx <= Len(sections)
    /\ unitIdx = 0
    /\ LET r == NarrateUnit(sections[secIdx].header)
       IN  /\ log' = log \o r.events
           /\ IF r.exc # ""
              THEN pc' = "raised" /\ UNCHANGED <<secIdx, unitIdx>>
              ELSE /\ pc' = pc
                   /\ IF Len(sections[secIdx].content) > 0
                      THEN unitIdx' = 1 /\ secIdx' = secIdx
                      ELSE unitIdx' = 0 /\ secIdx' = secIdx + 1
    /\ UNCHANGED <<doc, _sections, downloads, accesses, lastAccess, sections, mathVars, audioVars, clientVars>>

\* main: one iteration of `for content in section['content']:`
NarrateContent ==
    /\ pc = "narrate"
    /\ secIdx <= Len(sections)
    /\ unitIdx > 0
    /\ LET r == NarrateUnit(sections[secIdx].content[unitIdx])
       IN  /\ log' = log \o r.events
           /\ IF r.exc # ""
              THEN pc' = "raised" /\ UNCHANGED <<secIdx, unitIdx>>
              ELSE /\ pc' = pc
                   /\ IF unitIdx < Len(sections[secIdx].content)
                      THEN unitIdx' = unitIdx + 1 /\ secIdx' = secIdx
                      ELSE unitIdx' = 0 /\ secIdx' = secIdx + 1
    /\ UNCHANGED <<doc, _sections, downloads, accesses, lastAccess, sections, mathVars, audioVars, clientVars>>

\* the loop over the sections is exhausted
NarrationEnds ==
    /\ pc = "narrate"
    /\ secIdx > Len(sections)
    /\ pc' = "done"
    /\ UNCHANGED <<doc, _sections, downloads, accesses, lastAccess, sections,
                   secIdx, unitIdx, log, mathVars, audioVars, clientVars>>

-----------------------------------------------------------------------------
(* preprocess.math_equation.process_math_equations.                        *)

RECURSIVE FindInline(_, _)
\* re.findall(r"\$(.*?)\$", t) from position i: the captured groups, in order.
\* "." matches no line break, and the lazy group ends at the first "$".
FindInline(t, i) ==
    IF i > Len(t) THEN <<>>
    ELSE IF t[i] # "$" THEN FindInline(t, i + 1)
    ELSE LET j == SkipWhile(t, i + 1, {c \in {t[k] : k \in 1..Len(t)} : c \notin {"$", "\n"}})
         IN  IF j <= Len(t) /\ t[j] = "$"
             THEN <<SubSeq(t, i + 1, j - 1)>> \o FindInline(t, j + 1)
             ELSE FindInline(t, i + 1)

\* t has "$$" at position j
DollarPairAt(t, j) == j + 1 <= Len(t) /\ t[j] = "$" /\ t[j + 1] = "$"

RECURSIVE FindBlock(_, _)
\* re.findall(r"\$\$(.*?)\$\$", t) from position i
FindBlock(t, i) ==
    IF i > Len(t) THEN <<>>
    ELSE IF ~DollarPairAt(t, i) THEN FindBlock(t, i + 1)
    ELSE LET closes == {j \in (i + 2)..Len(t) :
                            /\ DollarPairAt(t, j)
                            /\ \A k \in (i + 2)..(j - 1) : t[k] # "\n"}
         IN  IF closes = {} THEN FindBlock(t, i + 1)
             ELSE LET j == CHOOSE x \in closes : \A y \in closes : x <= y
                  IN  <<SubSeq(t, i + 2, j - 1)>> \o FindBlock(t, j + 2)

RECURSIVE Replace(_, _, _)
\* str.replace(old, new) for a non-empty old: every occurrence, left to right
Replace(t, old, new) ==
    IF Len(t) < Len(old) THEN t
    ELSE IF SubSeq(t, 1, Len(old)) = old
         THEN new \o Replace(SubSeq(t, Len(old) + 1, Len(t)), old, new)
         ELSE <<t[1]>> \o Replace(Tail(t), old, new)

RECURSIVE ParseFrom(_, _)
\* whether the rest e of an expression is well formed, prev being the kind of
\* the token read last: "start", "op", "num", or "numsp" (a number, then a space)
ParseFrom(e, prev) ==
    IF Len(e) = 0 THEN prev \in {"num", "numsp"}
    ELSE IF e[1] \in DigitChars THEN prev # "numsp" /\ ParseFrom(Tail(e), "num")
    ELSE IF e[1] = "+" THEN ParseFrom(Tail(e), "op")
    ELSE IF e[1] = " " THEN ParseFrom(Tail(e), IF prev = "num" THEN "numsp" ELSE prev)
    ELSE FALSE

\* sympify(match) returns an expression (it raises SympifyError otherwise)
Parses(match) == ParseFrom(match, "start")

\* `sympify(match).srepr()`: sympify raises SympifyError on text that does not
\* parse; the expression it returns otherwise has no method srepr (srepr is a
\* function of sympy.printing, not a method of Basic), so the call raises
\* AttributeError.  exc is "" when the value is returned.
ReadableExpr(match) ==
    IF Parses(match)
    THEN [exc |-> "AttributeError", value |-> <<>>]
    ELSE [exc |-> "SympifyError", value |-> <<>>]

\* `except Exception:` catches exc
Caught(exc) == exc \in {"SympifyError", "AttributeError"}

MathPrefix == <<"M", "a", "t", "h", ":", " ">>

EquationPrefix == <<"E", "q", "u", "a", "t", "i", "o", "n", ":", " ">>

\* f"${match}$"
Delimited(match) == <<"$">> \o match \o <<"$">>

\* the body of `for match in matches:`; r = [exc, text]: exc # "" once an
\* exception left the loop
ReplaceMatch(r, match) ==
    IF r.exc # "" THEN r
    ELSE LET e == ReadableExpr(match)
         IN  IF e.exc = ""
             THEN [r EXCEPT !.text = Replace(@, Delimited(match), MathPrefix \o e.value)]
             ELSE IF Caught(e.exc)
             THEN [r EXCEPT !.text = Replace(@, Delimited(match), EquationPrefix \o match)]
             ELSE [r EXCEPT !.exc = e.exc]

RECURSIVE ReplaceMatches(_, _)
ReplaceMatches(r, matches) ==
    IF Len(matches) = 0 THEN r
    ELSE ReplaceMatches(ReplaceMatch(r, Head(matches)), Tail(matches))

\* process_math_equations(text): [exc, text], exc = "" when text is returned
process_math_equations(text) ==
    LET r1 == ReplaceMatches([exc |-> "", text |-> text], FindInline(text, 1))
    IN  IF r1.exc # "" THEN r1
        ELSE ReplaceMatches(r1, FindBlock(r1.text, 1))

\* the characters of the arguments of the model
MathChars == {"$", "1", "+", " ", "\n"}

MathInputs == SeqsUpTo(MathChars, MaxMathLen)

\* a call process_math_equations(mathIn)
ProcessMath ==
    /\ mathPc = "ready"
    /\ LET r == process_math_equations(mathIn)
       IN  /\ mathPc' = IF r.exc = "" THEN "returned" ELSE "raised"
           /\ mathOut' = r.text
    /\ UNCHANGED <<mathIn, paperVars, audioVars, clientVars>>

-----------------------------------------------------------------------------
(* audio/base.py: the settings of an Audio object and of its playback      *)
(* engine.  Volumes and pauses are counted in tenths: 9 is 0.9.            *)

\* `max(50, ...)` in the rate setter
MinRate == 50

\* `min(500, rate)` in the rate setter
MaxRate == 500

\* `rate: float = 140`
DefaultRate == 140

\* `max(0.0, ...)` in the volume setter
MinVolume == 0

\* `min(1.0, volume)` in the volume setter
MaxVolume == 10

\* `volume: float = 0.9`
DefaultVolume == 9

\* `pause_seconds: float = 0.1`
DefaultPause == 1

\* Python's max and min of two numbers
max(a, b) == IF a >= b THEN a ELSE b

min(a, b) == IF a <= b THEN a ELSE b

\* engine.getProperty('voices'): the ids of the voices the engine offers
available_voices == <<"v0", "v1">>

\* a voice argument: an int index, a str id, None, or a value of another type
VoiceArg(type, index, id) == [type |-> type, index |-> index, id |-> id]

\* the fields an Audio object and its engine hold once pyttsx3.init() has run
\* and rate and volume have been assigned; _voice and _pause_seconds are not
\* set yet, the engine speaks with its own default voice
AfterRateVolume(a) ==
    [_rate |-> a._rate, engineRate |-> a.engineRate,
     _volume |-> a._volume, engineVolume |-> a.engineVolume,
     _voice |-> <<>>, engineVoice |-> available_voices[1],
     _pause_seconds |-> <<>>, lastPause |-> <<>>]

\* Audio.rate = rate
set_rate(a, rate) ==
    [a EXCEPT !._rate = max(MinRate, min(MaxRate, rate)),
              !.engineRate = rate]

\* Audio.volume = volume
set_volume(a, volume) ==
    [a EXCEPT !._volume = max(MinVolume, min(MaxVolume, volume)),
              !.engineVolume = volume]

\* Audio.voice = voice
set_voice(a, voice) ==
    IF voice.type = "int"
    THEN IF 0 <= voice.index /\ voice.index < Len(available_voices)
         THEN [a EXCEPT !._voice = <<available_voices[voice.index + 1]>>,
                        !.engineVoice = available_voices[voice.index + 1]]
         ELSE a
    ELSE IF voice.type = "str"
    THEN IF \E i \in 1..Len(available_voices) : available_voices[i] = voice.id
         THEN [a EXCEPT !._voice = <<voice.id>>, !.engineVoice = voice.id]
         ELSE a
    ELSE IF voice.type = "None"
    THEN [a EXCEPT !._voice = <<a.engineVoice>>]
    ELSE a

\* Audio.pause_seconds = value; lastPause notes a non-negative value
set_pause_seconds(a, value) ==
    IF value < 0
    THEN a
    ELSE [a EXCEPT !._pause_seconds = <<value>>, !.lastPause = <<value>>]

\* Audio.settings = values; values[key] is <<v>> for a key of the dict, <<>>
\* for a key the dict does not have
set_settings(a, values) ==
    LET a1 == IF Len(values.rate) = 1 THEN set_rate(a, values.rate[1]) ELSE a
        a2 == IF Len(values.volume) = 1 THEN set_volume(a1, values.volume[1]) ELSE a1
        a3 == IF Len(values.voice) = 1 THEN set_voice(a2, values.voice[1]) ELSE a2
    IN  IF Len(values.pause_seconds) = 1
        THEN set_pause_seconds(a3, values.pause_seconds[1])
        ELSE a3

\* Audio(rate, volume, voice, pause_seconds)
Audio__init__(rate, volume, voice, pause_seconds) ==
    LET a0 == [_rate |-> max(MinRate, min(MaxRate, rate)), engineRate |-> rate,
               _volume |-> max(MinVolume, min(MaxVolume, volume)),
               engineVolume |-> volume]
    IN  set_pause_seconds(set_voice(AfterRateVolume(a0), voice), pause_seconds)

\* the arguments tried
RateInputs == {MinRate - 1, MinRate, DefaultRate, MaxRate, MaxRate + 1}

VolumeInputs == {MinVolume - 1, MinVolume, DefaultVolume, MaxVolume, MaxVolume + 1}

PauseInputs == {0 - DefaultPause, 0, DefaultPause}

VoiceInputs ==
    {VoiceArg("int", i, "") : i \in (0 - 1)..Len(available_voices)}
        \cup {VoiceArg("str", 0, id) : id \in {"v0", "v1", "zz"}}
        \cup {VoiceArg("None", 0, ""), VoiceArg("float", 0, "")}

\* <<>> and every <<v>>, v in S
Opt(S) == {<<>>} \cup {<<v>> : v \in S}

SettingsInputs ==
    [rate : Opt(RateInputs), volume : Opt(VolumeInputs),
     voice : Opt(VoiceInputs), pause_seconds : Opt(PauseInputs)]

\* the Audio object of the current state
TheAudio ==
    [_rate |-> _rate, engineRate |-> engineRate,
     _volume |-> _volume, engineVolume |-> engineVolume,
     _voice |-> _voice, engineVoice |-> engineVoice,
     _pause_seconds |-> _pause_seconds, lastPause |-> lastPause]

\* the Audio object in state a
AudioIs(a) ==
    /\ _rate = a._rate
    /\ engineRate = a.engineRate
    /\ _volume = a._volume
    /\ engineVolume = a.engineVolume
    /\ _voice = a._voice
    /\ engineVoice = a.engineVoice
    /\ _pause_seconds = a._pause_seconds
    /\ lastPause = a.lastPause

\* the Audio object becomes a
AudioBecomes(a) ==
    /\ _rate' = a._rate
    /\ engineRate' = a.engineRate
    /\ _volume' = a._volume
    /\ engineVolume' = a.engineVolume
    /\ _voice' = a._voice
    /\ engineVoice' = a.engineVoice
    /\ _pause_seconds' = a._pause_seconds
    /\ lastPause' = a.lastPause

AudioOp(op, exc) == [op |-> op, exc |-> exc]

SetRate ==
    /\ \E rate \in RateInputs : AudioBecomes(set_rate(TheAudio, rate))
    /\ audioOp' = AudioOp("rate", "none")
    /\ UNCHANGED <<paperVars, mathVars, clientVars>>

SetVolume ==
    /\ \E volume \in VolumeInputs : AudioBecomes(set_volume(TheAudio, volume))
    /\ audioOp' = AudioOp("volume", "none")
    /\ UNCHANGED <<paperVars, mathVars, clientVars>>

SetVoice ==
    /\ \E voice \in VoiceInputs : AudioBecomes(set_voice(TheAudio, voice))
    /\ audioOp' = AudioOp("voice", "none")
    /\ UNCHANGED <<paperVars, mathVars, clientVars>>

SetPauseSeconds ==
    /\ \E value \in PauseInputs : AudioBecomes(set_pause_seconds(TheAudio, value))
    /\ audioOp' = AudioOp("pause_seconds", "none")
    /\ UNCHANGED <<paperVars, mathVars, clientVars>>

SetAudioSettings ==
    /\ \E values \in SettingsInputs : AudioBecomes(set_settings(TheAudio, values))
    /\ audioOp' = AudioOp("settings", "none")
    /\ UNCHANGED <<paperVars, mathVars, clientVars>>

\* a read of Audio.pause_seconds, as in read_article's time.sleep(self.pause_seconds)
GetPauseSeconds ==
    /\ audioOp' = AudioOp("get pause_seconds",
                          IF Len(_pause_seconds) = 0 THEN "AttributeError" ELSE "none")
    /\ UNCHANGED <<_rate, engineRate, _volume, engineVolume, _voice, engineVoice,
                   _pause_seconds, lastPause, paperVars, mathVars, clientVars>>

AudioIdle ==
    /\ _rate = 0
    /\ engineRate = 0
    /\ _volume = 0
    /\ engineVolume = 0
    /\ _voice = <<>>
    /\ engineVoice = ""
    /\ _pause_seconds = <<>>
    /\ lastPause = <<>>
    /\ audioOp = AudioOp("idle", "none")

-----------------------------------------------------------------------------
(* resources/paper.py: the settings of a Paper and its cached arXiv client. *)

\* `page_size: int = 100`
DefaultPageSize == 100

\* `delay_seconds: float = 3.0`
DefaultDelaySeconds == 3

\* `num_retries: int = 3`
DefaultNumRetries == 3

\* a Python value of the given type; n tells values of one type apart
Val(type, n) == [type |-> type, n |-> n]

\* isinstance(value, int)
IsInt(value) == value.type = "int"

\* isinstance(value, float)
IsFloat(value) == value.type = "float"

\* arxiv.Client(page_size=..., delay_seconds=..., num_retries=...)
arxiv_Client(page_size, delay_seconds, num_retries) ==
    [page_size |-> page_size, delay_seconds |-> delay_seconds,
     num_retries |-> num_retries]

\* A Paper's settings are a record p; p.exc is the exception an assignment
\* raised, "none" if it returned.

\* Paper.page_size = value
set_page_size(p, value) ==
    IF ~IsInt(value)
    THEN [p EXCEPT !.exc = "ValueError"]
    ELSE [p EXCEPT !._page_size = value, !._client = <<>>]

\* Paper.delay_seconds = value
set_delay_seconds(p, value) ==
    IF ~IsInt(value) /\ ~IsFloat(value)
    THEN [p EXCEPT !.exc = "ValueError"]
    ELSE [p EXCEPT !._delay_seconds = value, !._client = <<>>]

\* Paper.num_retries = value; the statement `self._client` that ends the
\* setter evaluates the attribute and assigns nothing
set_num_retries(p, value) ==
    IF ~IsInt(value)
    THEN [p EXCEPT !.exc = "ValueError"]
    ELSE [p EXCEPT !._num_retries = value]

\* Paper.settings = values; values.type is the type of the value assigned,
\* values[prop] is <<v>> for a key of the dict and <<>> for a key it lacks;
\* an exception ends the loop
set_paper_settings(p, values) ==
    IF values.type # "dict"
    THEN [p EXCEPT !.exc = "ValueError"]
    ELSE LET p1 == IF Len(values.page_size) = 1
                   THEN set_page_size(p, values.page_size[1]) ELSE p
             p2 == IF p1.exc = "none" /\ Len(values.delay_seconds) = 1
                   THEN set_delay_seconds(p1, values.delay_seconds[1]) ELSE p1
         IN  IF p2.exc = "none" /\ Len(values.num_retries) = 1
             THEN set_num_retries(p2, values.num_retries[1])
             ELSE p2

\* a read of Paper.client: the record after it; its _client is what is returned
get_client(p) ==
    IF p._client = <<>>
    THEN [p EXCEPT !._client =
              <<arxiv_Client(p._page_size, p._delay_seconds, p._num_retries)>>]
    ELSE p

\* the values tried for a setting whose default is d
ValueInputs(d) == {Val("int", d), Val("int", d + 1), Val("float", d), Val("str", d)}

PaperSettingsInputs ==
    [type : {"dict"}, page_size : Opt(ValueInputs(DefaultPageSize)),
     delay_seconds : Opt(ValueInputs(DefaultDelaySeconds)),
     num_retries : Opt(ValueInputs(DefaultNumRetries))]
        \cup {[type |-> "list", page_size |-> <<>>, delay_seconds |-> <<>>,
               num_retries |-> <<>>]}

\* the Paper of the current state, no exception pending
ThePaper ==
    [_page_size |-> _page_size, _delay_seconds |-> _delay_seconds,
     _num_retries |-> _num_retries, _client |-> _client, exc |-> "none"]

\* the Paper becomes p, op having ended with p.exc
PaperBecomes(op, p) ==
    /\ _page_size' = p._page_size
    /\ _delay_seconds' = p._delay_seconds
    /\ _num_retries' = p._num_retries
    /\ _client' = p._client
    /\ clientOp' = [op |-> op, exc |-> p.exc]

SetPageSize ==
    /\ \E value \in ValueInputs(DefaultPageSize) :
           PaperBecomes("page_size", set_page_size(ThePaper, value))
    /\ UNCHANGED <<client, paperVars, mathVars, audioVars>>

SetDelaySeconds ==
    /\ \E value \in ValueInputs(DefaultDelaySeconds) :
           PaperBecomes("delay_seconds", set_delay_seconds(ThePaper, value))
    /\ UNCHANGED <<client, paperVars, mathVars, audioVars>>

SetNumRetries ==
    /\ \E value \in ValueInputs(DefaultNumRetries) :
           PaperBecomes("num_retries", set_num_retries(ThePaper, value))
    /\ UNCHANGED <<client, paperVars, mathVars, audioVars>>

SetPaperSettings ==
    /\ \E values \in PaperSettingsInputs :
           PaperBecomes("settings", set_paper_settings(ThePaper, values))
    /\ UNCHANGED <<client, paperVars, mathVars, audioVars>>

ReadClient ==
    /\ PaperBecomes("client", get_client(ThePaper))
    /\ client' = get_client(ThePaper)._client
    /\ UNCHANGED <<paperVars, mathVars, audioVars>>

ClientIdle ==
    /\ _page_size = Val("None", 0)
    /\ _delay_seconds = Val("None", 0)
    /\ _num_retries = Val("None", 0)
    /\ _client = <<>>
    /\ client = <<>>
    /\ clientOp = [op |-> "idle", exc |-> "none"]

-----------------------------------------------------------------------------
(* The program: a Paper whose sections are read, then narrated.            *)

MathIdle ==
    /\ mathIn = <<>>
    /\ mathOut = <<>>
    /\ mathPc = "idle"

\* Paper.__init__, and the document the arXiv identifier resolves to
Init ==
    /\ doc \in Docs
    /\ _sections = <<>>
    /\ downloads = 0
    /\ accesses = 0
    /\ lastAccess = NoAccess
    /\ sections = <<>>
    /\ pc = "paper"
    /\ secIdx = 0
    /\ unitIdx = 0
    /\ log = <<>>
    /\ MathIdle
    /\ AudioIdle
    /\ ClientIdle

Next ==
    \/ SectionsCached
    \/ SectionsComputed
    \/ SectionsDownloadFails
    \/ SectionsOpenFails
    \/ SectionsGetTextFails
    \/ BeginNarration
    \/ NarrateHeader
    \/ NarrateContent
    \/ NarrationEnds

Spec == Init /\ [][Next]_vars

-----------------------------------------------------------------------------
(* The math normaliser on its own: every argument up to MaxMathLen long.   *)

PaperIdle ==
    /\ doc = <<>>
    /\ _sections = <<>>
    /\ downloads = 0
    /\ accesses = 0
    /\ lastAccess = NoAccess
    /\ sections = <<>>
    /\ pc = "idle"
    /\ secIdx = 0
    /\ unitIdx = 0
    /\ log = <<>>

InitMath ==
    /\ mathIn \in MathInputs
    /\ mathOut = <<>>
    /\ mathPc = "ready"
    /\ PaperIdle
    /\ AudioIdle
    /\ ClientIdle

NextMath == ProcessMath

SpecMath == InitMath /\ [][NextMath]_vars

-----------------------------------------------------------------------------
(* An Audio object on its own: constructed with any of the arguments       *)
(* tried, then assigned to and read in any order.                          *)

InitAudio ==
    /\ \E rate \in RateInputs, volume \in VolumeInputs,
          voice \in VoiceInputs, pause_seconds \in PauseInputs :
           AudioIs(Audio__init__(rate, volume, voice, pause_seconds))
    /\ audioOp = AudioOp("__init__", "none")
    /\ PaperIdle
    /\ MathIdle
    /\ ClientIdle

NextAudio ==
    \/ SetRate
    \/ SetVolume
    \/ SetVoice
    \/ SetPauseSeconds
    \/ SetAudioSettings
    \/ GetPauseSeconds

SpecAudio == InitAudio /\ [][NextAudio]_vars

-----------------------------------------------------------------------------
(* The settings of a Paper on their own: constructed with arguments the    *)
(* setters accept, then assigned to and read in any order.                 *)

InitClient ==
    /\ _page_size \in {v \in ValueInputs(DefaultPageSize) : IsInt(v)}
    /\ _delay_seconds \in {v \in ValueInputs(DefaultDelaySeconds) : IsInt(v) \/ IsFloat(v)}
    /\ _num_retries \in {v \in ValueInputs(DefaultNumRetries) : IsInt(v)}
    /\ _client = <<>>
    /\ client = <<>>
    /\ clientOp = [op |-> "__init__", exc |-> "none"]
    /\ PaperIdle
    /\ MathIdle
    /\ AudioIdle

NextClient ==
    \/ SetPageSize
    \/ SetDelaySeconds
    \/ SetNumRetries
    \/ SetPaperSettings
    \/ ReadClient

SpecClient == InitClient /\ [][NextClient]_vars

-----------------------------------------------------------------------------
(* Properties of Paper.sections (specification Spec).                      *)

\* the block texts of the document in reading order, each stripped
StrippedBlocks == LET b == Flatten(doc) IN [i \in 1..Len(b) |-> Strip(b[i])]

\* the latest read of Paper.sections ran the whole computation and returned
JustComputed == lastAccess = Returned(TRUE)

RECURSIVE UnitsOf(_)
\* the strings of a section list in order: each header that is a str, then
\* the entries of its content
UnitsOf(secs) ==
    IF Len(secs) = 0 THEN <<>>
    ELSE (IF IsStr(Head(secs).header) THEN <<Head(secs).header>> ELSE <<>>)
         \o Head(secs).content \o UnitsOf(Tail(secs))

\* C1: for a non-empty block sequence, every block is in exactly one section, as
\* its header or as one entry of its content: the headers and content entries of
\* the computed sections, read in order, are the (stripped) blocks in reading
\* order, none missing and none twice.
C1_EveryBlockInOneSection ==
    (JustComputed /\ Len(StrippedBlocks) > 0) => UnitsOf(_sections) = StrippedBlocks

C1_Witness ==
    /\ JustComputed
    /\ Len(StrippedBlocks) = MaxBlocks
    /\ Len(_sections) = 2
    /\ _sections[1].header = None
    /\ Len(_sections[2].content) > 0

\* the positions of the header blocks, ascending
HeaderPositions ==
    SelectSeq([i \in 1..Len(StrippedBlocks) |-> i], LAMBDA i : IsHeader(StrippedBlocks[i]))

\* C2: flush ordering.  The sections with a header are in the order of the header
\* blocks; the content of each is exactly the non-header blocks between its header
\* and the next header, in input order; the blocks before the first header form a
\* leading section with header None exactly when there are any.
C2_FlushOrdering ==
    JustComputed =>
        LET s == StrippedBlocks
            hp == HeaderPositions
            pre == IF Len(hp) = 0 THEN Len(s) ELSE hp[1] - 1
            off == IF pre > 0 THEN 1 ELSE 0
        IN  /\ Len(_sections) = Len(hp) + off
            /\ off = 1 => _sections[1] = [header |-> None, content |-> SubSeq(s, 1, pre)]
            /\ \A k \in 1..Len(hp) :
                    _sections[k + off] =
                        [header |-> s[hp[k]],
                         content |-> SubSeq(s, hp[k] + 1,
                                            IF k < Len(hp) THEN hp[k + 1] - 1 ELSE Len(s))]

C2_Witness ==
    /\ JustComputed
    /\ Flatten(doc) = << <<"A", "B">>, <<" ", "a", ".", " ", "b", "\n">>, <<"1", ".", "2", " ", "a">> >>
    /\ _sections = << [header |-> <<"A", "B">>, content |-> << <<"a", ".", " ", "b">> >>],
                      [header |-> <<"1", ".", "2", " ", "a">>, content |-> <<>>] >>

\* C3: a non-empty block sequence without any header block gives exactly one
\* section, with header None and the (stripped) blocks as content, in input order.
C3_NoHeaderOneSection ==
    (JustComputed /\ Len(StrippedBlocks) > 0 /\ Len(HeaderPositions) = 0)
        => _sections = << [header |-> None, content |-> StrippedBlocks] >>

C3_Witness ==
    /\ JustComputed
    /\ Len(HeaderPositions) = 0
    /\ Len(StrippedBlocks) = MaxBlocks
    /\ StrippedBlocks[1] # StrippedBlocks[2]
    /\ Len(_sections) = 1

\* C4 (as claimed): once a read of Paper.sections has returned, no later read
\* invokes the page source again, whatever the first computation produced.
C4_ComputedOnce ==
    [][lastAccess.outcome = "returned" => downloads' = downloads]_vars

RECURSIVE ContentsOf(_)
\* the content entries of a section list, in order
ContentsOf(secs) ==
    IF Len(secs) = 0 THEN <<>> ELSE Head(secs).content \o ContentsOf(Tail(secs))

\* C5 (as claimed): the content entries of the computed sections are the texts
\* of the non-header blocks after process_math_equations, not the raw texts.
C5_ContentNormalized ==
    JustComputed =>
        LET raw == SelectSeq(StrippedBlocks, LAMBDA t : ~IsHeader(t))
        IN  ContentsOf(_sections) =
                [i \in 1..Len(raw) |-> process_math_equations(raw[i]).text]

-----------------------------------------------------------------------------
(* Properties of the narration (specification Spec).                       *)

RECURSIVE PassedUnits(_)
\* what main passes to read_article, in order: each section's header (None
\* included), then the entries of its content
PassedUnits(secs) ==
    IF Len(secs) = 0 THEN <<>>
    ELSE <<Head(secs).header>> \o Head(secs).content \o PassedUnits(Tail(secs))

\* the events of one unit that is a str: each sentence said and paused after,
\* then the section-level pause
SpokenUnit(u) == SayAll(get_sentences(clean_text(u))) \o <<UnitPause>>

RECURSIVE NarrationSkippingNone(_)
\* the events of the units, a None header giving no event at all
NarrationSkippingNone(units) ==
    IF Len(units) = 0 THEN <<>>
    ELSE (IF Head(units) = None THEN <<>> ELSE SpokenUnit(Head(units)))
         \o NarrationSkippingNone(Tail(units))

RECURSIVE NarrationPausingNone(_)
\* the events of the units, a None header giving the section-level pause only
NarrationPausingNone(units) ==
    IF Len(units) = 0 THEN <<>>
    ELSE (IF Head(units) = None THEN <<UnitPause>> ELSE SpokenUnit(Head(units)))
         \o NarrationPausingNone(Tail(units))

\* the units narrated so far, given main's position in its two loops
UnitsDone ==
    IF pc \notin {"narrate", "done"} THEN <<>>
    ELSE IF secIdx > Len(sections) THEN PassedUnits(sections)
    ELSE PassedUnits(SubSeq(sections, 1, secIdx - 1))
         \o (IF unitIdx = 0 THEN <<>>
             ELSE <<sections[secIdx].header>>
                  \o SubSeq(sections[secIdx].content, 1, unitIdx - 1))

\* C6 (as claimed): the sections are narrated in order, header first, then the
\* content entries, each unit's sentences followed by a section-level pause, and
\* a header of None gives neither a playback dispatch nor a pause.
C6_NoneHeaderNoPause ==
    pc = "done" => log = NarrationSkippingNone(PassedUnits(sections))

\* C6 (amended): at every point of the narration the events so far are those of
\* the units passed so far, in order, each unit's sentences followed by a
\* section-level pause; a header of None gives no playback dispatch, but the
\* section-level pause after it is still made.
C6_NarrationInOrder ==
    log = NarrationPausingNone(UnitsDone)

C6_Witness ==
    /\ pc = "done"
    /\ Len(sections) = 2
    /\ sections[1].header = None
    /\ sections[2].header # None
    /\ Len(sections[2].content) > 0
    /\ \E i \in 1..Len(log) : log[i].ev = "say"

\* the sentences given to the playback engine, in order
Said(events) == SelectSeq(events, LAMBDA e : e.ev = "say")

\* C7: read_article given a value that is no str (a None header) dispatches
\* nothing and raises nothing, and the narration goes on: when it ends, what was
\* said is exactly the sentences of the units that are str, in order.
C7_NonStringSkipped ==
    /\ pc # "raised"
    /\ pc = "done" =>
            Said(log) = Said(NarrationSkippingNone(SelectSeq(PassedUnits(sections), IsStr)))

C7_Witness ==
    /\ pc = "done"
    /\ Len(sections) > 0
    /\ sections[1].header = None
    /\ Len(PassedUnits(sections)) > 2
    /\ Len(Said(log)) > 2

-----------------------------------------------------------------------------
(* Properties of process_math_equations (specification SpecMath).          *)

DollarPositions(t) == {i \in 1..Len(t) : t[i] = "$"}

StartsWith(t, p) == Len(t) >= Len(p) /\ SubSeq(t, 1, Len(p)) = p

EndsWith(t, p) == Len(t) >= Len(p) /\ SubSeq(t, Len(t) - Len(p) + 1, Len(t)) = p

\* C8 (as claimed): an argument with one inline span $e$ whose expression e
\* parses comes back with the whole span, delimiters included, replaced by a
\* string that begins "Math: "; the text around the span is kept.
C8_ParsedSpanBecomesMath ==
    (mathPc = "returned" /\ Cardinality(DollarPositions(mathIn)) = 2) =>
        LET p == CHOOSE i \in DollarPositions(mathIn) :
                     \A j \in DollarPositions(mathIn) : i <= j
            q == CHOOSE i \in DollarPositions(mathIn) :
                     \A j \in DollarPositions(mathIn) : j <= i
            e == SubSeq(mathIn, p + 1, q - 1)
        IN  (FindInline(mathIn, 1) = <<e>> /\ Parses(e)) =>
                /\ StartsWith(mathOut, SubSeq(mathIn, 1, p - 1) \o MathPrefix)
                /\ EndsWith(mathOut, SubSeq(mathIn, q + 1, Len(mathIn)))
                /\ DollarPositions(mathOut) = {}

RECURSIVE FallbackInPlace(_, _)
\* t from position i on, each inline span replaced where it stands by
\* "Equation: " and its captured text
FallbackInPlace(t, i) ==
    IF i > Len(t) THEN <<>>
    ELSE IF t[i] # "$" THEN <<t[i]>> \o FallbackInPlace(t, i + 1)
    ELSE LET j == SkipWhile(t, i + 1, {c \in {t[k] : k \in 1..Len(t)} : c \notin {"$", "\n"}})
         IN  IF j <= Len(t) /\ t[j] = "$"
             THEN EquationPrefix \o SubSeq(t, i + 1, j - 1) \o FallbackInPlace(t, j + 1)
             ELSE <<t[i]>> \o FallbackInPlace(t, i + 1)

\* C9 (as claimed): the call never raises, and every captured span whose
\* expression does not parse is replaced by "Equation: " and the captured text.
C9_FailedSpanBecomesEquation ==
    /\ mathPc # "raised"
    /\ (/\ mathPc = "returned"
        /\ \A k \in 1..Len(FindInline(mathIn, 1)) : ~Parses(FindInline(mathIn, 1)[k]))
            => mathOut = FallbackInPlace(mathIn, 1)

\* C10 (as claimed): $$e$$ is one span with expression e, replaced as a whole;
\* of several spans of one argument no "$" delimiter stays; an argument without
\* "$" comes back unchanged.
C10_BlockSpanReplacedWhole ==
    mathPc = "returned" =>
        LET n == Len(mathIn)
            dp == DollarPositions(mathIn)
            oneLine == \A i \in 1..n : mathIn[i] # "\n"
        IN  /\ (n >= 5 /\ dp = {1, 2, n - 1, n} /\ oneLine) =>
                    \/ mathOut = EquationPrefix \o SubSeq(mathIn, 3, n - 2)
                    \/ StartsWith(mathOut, MathPrefix) /\ DollarPositions(mathOut) = {}
            /\ (oneLine /\ Cardinality(dp) % 2 = 0 /\ \A i \in dp : i + 1 \notin dp) =>
                    DollarPositions(mathOut) = {}
            /\ dp = {} => mathOut = mathIn

-----------------------------------------------------------------------------
(* Further properties of Paper.sections (specification Spec).              *)

\* the number of empty strings among the entries of seq
BlankCount(seq) == Cardinality({i \in 1..Len(seq) : seq[i] = <<>>})

\* C12 (as claimed): a block that is empty after stripping is skipped, so no
\* section's content ever holds an empty string.
C12_BlankBlockSkipped ==
    BlankCount(ContentsOf(_sections)) = 0

\* C12 (amended): a block that is empty after stripping is never taken as a
\* header; it is appended to the content of the current section as an empty
\* string, one entry for each such block.
C12_BlankBlockIsContent ==
    JustComputed =>
        /\ BlankCount(ContentsOf(_sections)) = BlankCount(StrippedBlocks)
        /\ \A k \in 1..Len(_sections) : _sections[k].header # <<>>

C12_Witness ==
    /\ JustComputed
    /\ Len(_sections) = 2
    /\ BlankCount(_sections[2].content) = 1
    /\ BlankCount(StrippedBlocks) = 1

\* a section list without an empty section: each section has a header or some
\* content, a header that is not None is a non-empty string, and only the first
\* section can have the header None
NoEmptySection(secs) ==
    \A k \in 1..Len(secs) :
        /\ secs[k].header # None \/ Len(secs[k].content) > 0
        /\ secs[k].header # None => Len(secs[k].header) > 0
        /\ k > 1 => secs[k].header # None

\* C15: no empty section is ever emitted: the cache, and the list a read of
\* Paper.sections returned, never hold an empty section.
C15_NoEmptySection ==
    NoEmptySection(_sections) /\ NoEmptySection(sections)

C15_Witness ==
    /\ lastAccess.outcome = "returned"
    /\ Len(sections) = 3
    /\ sections[1].header = None
    /\ Len(sections[2].content) = 0

\* C16 (as claimed): when a read of Paper.sections raises, the section cache
\* is empty afterwards.
C16_NoPartialCache ==
    lastAccess.outcome = "raised" => _sections = <<>>

-----------------------------------------------------------------------------
(* Properties of the Audio settings (specification SpecAudio).             *)

\* C11: rate and volume are clamped before they reach playback: the value the
\* playback engine holds equals the value the Audio property reports and lies
\* in [MinRate, MaxRate] for rate and in [MinVolume, MaxVolume] for volume.
C11_EngineHoldsClampedValue ==
    /\ engineRate = _rate
    /\ MinRate <= engineRate /\ engineRate <= MaxRate
    /\ engineVolume = _volume
    /\ MinVolume <= engineVolume /\ engineVolume <= MaxVolume

\* C13: after construction and any sequence of assignments, Audio.pause_seconds
\* is defined, is non-negative and is the latest non-negative value assigned.
C13_PauseDefinedNonNegative ==
    /\ Len(_pause_seconds) = 1
    /\ _pause_seconds[1] >= 0
    /\ _pause_seconds = lastPause

-----------------------------------------------------------------------------
(* Properties of the Paper settings (specification SpecClient).            *)

\* C14: the cached client never goes stale: the client a read of Paper.client
\* returned was built with the page_size, delay_seconds and num_retries that
\* are current at the time of the read.
C14_ClientNeverStale ==
    clientOp.op = "client" =>
        client = <<arxiv_Client(_page_size, _delay_seconds, _num_retries)>>

====
